---- MODULE Spec2Model ----
(***************************************************************************)
(* Model of the doc_updater pipeline (src/src/doc_updater): the phase      *)
(* sequencing and retry loop of run_pipeline, the result parsing of        *)
(* _verification_passed, the stream draining of _collect_result, the       *)
(* write-boundary guard of permissions.py, the Bash hook of hooks.py and   *)
(* the verification-environment tools of tools.py.                         *)
(*                                                                         *)
(* Texts are TLC strings, used as sequences of characters (Len, SubSeq,    *)
(* \o), so that substring tests and lowercasing are computed, not assumed. *)
(***************************************************************************)
EXTENDS Integers, Sequences, FiniteSets, TLC

VARIABLES
    cfg,                \* the Config of this run (immutable after Init)
    pc,                 \* position of run_pipeline
    iteration,          \* loop variable of "for iteration in range(max_iterations)"
    iterations_used,
    analysis_result,
    update_result,
    verify_result,
    pr_diff,
    verification_failure_context,
    prompt,             \* the instruction last passed to client.query
    issued,             \* history: the phases issued so far, in order
    outcomes,           \* history: _verification_passed of every finished VERIFY
    envs,               \* verification environments acquired so far, by handle id
    env_cur,            \* handle acquired during the phase in flight (0: none)
    exit_code,          \* process exit status (NoExit while running)
    result,             \* the PipelineResult returned (NoResult before)
    completed,          \* history: how many issued phases have been drained to their end
    error,              \* the SDK exception that ended the run (NoError: none)
    call                \* the last guard / hook invocation and its answer

vars == <<cfg, pc, iteration, iterations_used, analysis_result, update_result,
          verify_result, pr_diff, verification_failure_context, prompt, issued,
          outcomes, envs, env_cur, exit_code, result, completed, error, call>>

pipeVars == <<cfg, pc, iteration, iterations_used, analysis_result, update_result,
              verify_result, pr_diff, verification_failure_context, prompt, issued,
              outcomes, envs, env_cur, exit_code, result, completed, error>>

(***************************************************************************)
(* Bounds                                                                  *)
(***************************************************************************)
MaxIterations == 3      \* max_iterations ranges over 0..MaxIterations

(***************************************************************************)
(* Strings                                                                 *)
(***************************************************************************)
\* Python "p in s"
Contains(s, p) ==
    \E i \in 1..(Len(s) - Len(p) + 1) : SubSeq(s, i, i + Len(p) - 1) = p

\* Python s.startswith(p)
StartsWith(s, p) == Len(p) <= Len(s) /\ SubSeq(s, 1, Len(p)) = p

UpperChars == <<"A", "B", "C", "D", "E", "F", "G", "H", "I", "J", "K", "L", "M",
                "N", "O", "P", "Q", "R", "S", "T", "U", "V", "W", "X", "Y", "Z">>
LowerChars == <<"a", "b", "c", "d", "e", "f", "g", "h", "i", "j", "k", "l", "m",
                "n", "o", "p", "q", "r", "s", "t", "u", "v", "w", "x", "y", "z">>

LowerMap ==
    [c \in {UpperChars[i] : i \in DOMAIN UpperChars} |->
        LowerChars[CHOOSE i \in DOMAIN UpperChars : UpperChars[i] = c]]

LowerChar(c) == IF c \in DOMAIN LowerMap THEN LowerMap[c] ELSE c

\* the characters lo..hi of s, lowercased (halving keeps the recursion shallow)
RECURSIVE LowerRange(_, _, _)
LowerRange(s, lo, hi) ==
    IF lo > hi THEN ""
    ELSE IF lo = hi THEN LowerChar(SubSeq(s, lo, lo))
    ELSE LowerRange(s, lo, (lo + hi) \div 2) \o LowerRange(s, (lo + hi) \div 2 + 1, hi)

\* Python s.lower()
Lower(s) == LowerRange(s, 1, Len(s))

\* Python sep.join(texts)
RECURSIVE Join(_, _)
Join(texts, sep) ==
    IF Len(texts) = 0 THEN ""
    ELSE IF Len(texts) = 1 THEN texts[1]
    ELSE texts[1] \o sep \o Join(Tail(texts), sep)

\* Python str(n) for n >= 0
Digits == <<"0", "1", "2", "3", "4", "5", "6", "7", "8", "9">>
RECURSIVE IntToStr(_)
IntToStr(n) ==
    IF n < 10 THEN Digits[n + 1] ELSE IntToStr(n \div 10) \o Digits[(n % 10) + 1]

\* Python s.strip(ch) for a single character ch
RECURSIVE StripLeft(_, _)
StripLeft(s, ch) ==
    IF Len(s) > 0 /\ SubSeq(s, 1, 1) = ch THEN StripLeft(SubSeq(s, 2, Len(s)), ch) ELSE s
RECURSIVE StripRight(_, _)
StripRight(s, ch) ==
    IF Len(s) > 0 /\ SubSeq(s, Len(s), Len(s)) = ch
    THEN StripRight(SubSeq(s, 1, Len(s) - 1), ch) ELSE s
Strip(s, ch) == StripRight(StripLeft(s, ch), ch)

\* Python s.removesuffix(suffix)
RemoveSuffix(s, suffix) ==
    IF Len(suffix) > 0 /\ Len(suffix) <= Len(s)
       /\ SubSeq(s, Len(s) - Len(suffix) + 1, Len(s)) = suffix
    THEN SubSeq(s, 1, Len(s) - Len(suffix))
    ELSE s

\* Python s.rsplit("/", 1)[-1]
RECURSIVE AfterLastSlash(_, _)
AfterLastSlash(s, i) ==
    IF i = 0 THEN s
    ELSE IF SubSeq(s, i, i) = "/" THEN SubSeq(s, i + 1, Len(s))
    ELSE AfterLastSlash(s, i - 1)

\* Python seq[:n]
Take(seq, n) == SubSeq(seq, 1, IF Len(seq) < n THEN Len(seq) ELSE n)

(***************************************************************************)
(* _build_branch_name (orchestrator.py 42-61)                              *)
(***************************************************************************)
SlugSourceLen == 60
SlugFileCount == 3

SlugChars == {LowerChars[i] : i \in DOMAIN LowerChars} \cup {Digits[i] : i \in DOMAIN Digits}

\* re.sub(r"[^a-z0-9]+", "-", slug): in_run says the previous character was replaced
RECURSIVE CollapseNonAlnum(_, _, _)
CollapseNonAlnum(s, i, in_run) ==
    IF i > Len(s) THEN ""
    ELSE IF SubSeq(s, i, i) \in SlugChars
         THEN SubSeq(s, i, i) \o CollapseNonAlnum(s, i + 1, FALSE)
    ELSE IF in_run THEN CollapseNonAlnum(s, i + 1, TRUE)
    ELSE "-" \o CollapseNonAlnum(s, i + 1, TRUE)

\* mutant: the hyphens at the ends are kept
ContextSlugNoStrip(user_context) ==
    CollapseNonAlnum(Lower(Take(user_context, SlugSourceLen)), 1, FALSE)

\* the three assignments to slug, each computed once from the one before
ContextSlug(user_context) ==
    CHOOSE slug \in
        {Strip(collapsed, "-") :
            collapsed \in {CollapseNonAlnum(lowered, 1, FALSE) :
                lowered \in {Lower(Take(user_context, SlugSourceLen))}}} : TRUE

\* mutant: only ".md" is removed
FileSlugMdOnly(f) == RemoveSuffix(AfterLastSlash(f, Len(f)), ".md")

FileSlug(f) == RemoveSuffix(RemoveSuffix(AfterLastSlash(f, Len(f)), ".md"), ".rst")

FilesSlug(files) ==
    LET first == Take(files, SlugFileCount)
    IN IF Len(first) = 0 THEN "update"
       ELSE Join([i \in DOMAIN first |-> FileSlug(first[i])], "-")

BuildBranchName(c, timestamp) ==
    IF c.user_context # ""
    THEN "agent/docs/" \o ContextSlug(c.user_context) \o "-" \o IntToStr(timestamp)
    ELSE "agent/docs/" \o FilesSlug(c.target_doc_files) \o "-" \o IntToStr(timestamp)

(***************************************************************************)
(* _verification_passed (orchestrator.py 137-147)                          *)
(***************************************************************************)
PassMarkerSpaced  == "\"overall_status\": \"pass\""
PassMarkerCompact == "\"overall_status\":\"pass\""
FailMarkerSpaced  == "\"overall_status\": \"fail\""
FailMarkerCompact == "\"overall_status\":\"fail\""

\* "text = result_text.lower()" is computed once and tested against both spellings
HasPassMarker(text) ==
    \E lower \in {Lower(text)} :
        Contains(lower, PassMarkerSpaced) \/ Contains(lower, PassMarkerCompact)
HasFailMarker(text) ==
    \E lower \in {Lower(text)} :
        Contains(lower, FailMarkerSpaced) \/ Contains(lower, FailMarkerCompact)

\* mutant: fail-open parsing (anything without a fail verdict passes)
VerificationPassedFailOpen(result_text) ==
    IF HasPassMarker(result_text) THEN TRUE
    ELSE IF HasFailMarker(result_text) THEN FALSE
    ELSE TRUE

VerificationPassed(result_text) ==
    IF HasPassMarker(result_text) THEN TRUE
    ELSE IF HasFailMarker(result_text) THEN FALSE
    ELSE FALSE

(***************************************************************************)
(* _collect_result (orchestrator.py 97-134).  A response stream is the     *)
(* sequence of content blocks of the AssistantMessages received, followed  *)
(* by the ResultMessage, whose result text may be empty (None or "").      *)
(***************************************************************************)
TextBlock(t)    == [type |-> "text", text |-> t, name |-> "", command |-> ""]
ToolUseBlock(n, c) == [type |-> "tool_use", text |-> "", name |-> n, command |-> c]
Stream(bs, r)   == [blocks |-> bs, result |-> r]

RECURSIVE BlockTexts(_)
BlockTexts(blocks) ==
    IF Len(blocks) = 0 THEN <<>>
    ELSE (IF Head(blocks).type = "text" THEN <<Head(blocks).text>> ELSE <<>>)
         \o BlockTexts(Tail(blocks))

CollectedTexts(stream) ==
    BlockTexts(stream.blocks)
        \o (IF stream.result # "" THEN <<stream.result>> ELSE <<>>)

\* the locals of _collect_result before the loop; printed is the history of the calls
\* to print_command, print_command_output and print_progress (at: index of the block)
CollectStart == [texts |-> <<>>, awaiting_bash_output |-> FALSE, printed |-> <<>>]

Printed(fn, at, text) == [fn |-> fn, at |-> at, text |-> text]

\* mutant: quiet skips every block, text blocks included
CollectStepQuietSkipsAll(st, block, at, quiet, show_commands) ==
    IF quiet THEN st
    ELSE IF block.type = "text"
    THEN [st EXCEPT !.texts = Append(@, block.text)]
    ELSE st

\* mutant: the flag is not cleared after the output was displayed
CollectStepFlagKept(st, block, at, quiet, show_commands) ==
    IF block.type = "text"
    THEN [st EXCEPT !.texts = Append(@, block.text),
                    !.printed = IF show_commands /\ st.awaiting_bash_output
                                THEN Append(@, Printed("print_command_output", at, block.text))
                                ELSE @]
    ELSE IF ~quiet /\ show_commands /\ block.name = "Bash"
    THEN [st EXCEPT !.awaiting_bash_output = TRUE,
                    !.printed = Append(@, Printed("print_command", at, block.command))]
    ELSE st

\* one content block of an AssistantMessage (the body of "for block in message.content");
\* for print_progress the history keeps the name of the tool summarized
CollectStep(st, block, at, quiet, show_commands) ==
    IF block.type = "text"
    THEN IF show_commands /\ st.awaiting_bash_output
         THEN [texts |-> Append(st.texts, block.text),
               awaiting_bash_output |-> FALSE,
               printed |-> Append(st.printed, Printed("print_command_output", at, block.text))]
         ELSE [st EXCEPT !.texts = Append(@, block.text)]
    ELSE IF block.type = "tool_use"
    THEN IF quiet THEN st
         ELSE IF show_commands /\ block.name = "Bash"
         THEN [st EXCEPT !.awaiting_bash_output = TRUE,
                         !.printed = Append(@, Printed("print_command", at, block.command))]
         ELSE [st EXCEPT !.printed = Append(@, Printed("print_progress", at, block.name))]
    ELSE st

RECURSIVE CollectLoop(_, _, _, _, _)
CollectLoop(blocks, at, st, quiet, show_commands) ==
    IF at > Len(blocks) THEN st
    ELSE CollectLoop(blocks, at + 1, CollectStep(st, blocks[at], at, quiet, show_commands),
                     quiet, show_commands)

\* the whole loop: the blocks, then the ResultMessage ("if message.result: append")
CollectRun(stream, quiet, show_commands) ==
    LET st == CollectLoop(stream.blocks, 1, CollectStart, quiet, show_commands)
    IN IF stream.result # "" THEN [st EXCEPT !.texts = Append(@, stream.result)] ELSE st

\* return "\n".join(texts)
CollectResult(stream, quiet, show_commands) ==
    Join(CollectRun(stream, quiet, show_commands).texts, "\n")

(***************************************************************************)
(* What the reasoning engine may answer to each phase                      *)
(***************************************************************************)
PassJson        == "{\"overall_status\": \"pass\", \"steps\": []}"
PassJsonUpper   == "{\"OVERALL_STATUS\":\"PASS\"}"
FailJson        == "{\"overall_status\": \"fail\", \"suggestions\": []}"
FailJsonUpper   == "{\"Overall_Status\":\"FAIL\"}"
UnquotedPass    == "overall_status: pass"
WidePass        == "{\"overall_status\":  \"pass\"}"
StepPass        == "{\"step_number\": 1, \"status\": \"pass\"}"
SchemaQuote     == "I report {\"overall_status\": \"pass\"} only if every step succeeds."

VerifyStreams ==
    { Stream(<<>>, ""),
      Stream(<<TextBlock(PassJson)>>, ""),
      Stream(<<ToolUseBlock("Bash", "make test"), TextBlock("ok")>>, PassJsonUpper),
      Stream(<<ToolUseBlock("Task", "")>>, FailJsonUpper),
      Stream(<<TextBlock(StepPass), TextBlock(UnquotedPass)>>, WidePass),
      Stream(<<TextBlock(SchemaQuote), TextBlock(FailJson)>>, "") }

AnalysisStreams == { Stream(<<ToolUseBlock("Task", ""), TextBlock("{\"project_name\": \"demo\"}")>>, "") }
UpdateStreams   == { Stream(<<ToolUseBlock("Task", "")>>, "Updated docs/setup.md"),
                     Stream(<<>>, "") }
BranchStreams   == { Stream(<<TextBlock("Branch created and committed.")>>, "") }
CommitStreams   == { Stream(<<TextBlock("diff --git a/setup.md b/setup.md")>>, ""),
                     Stream(<<>>, "(no changes)") }
PRStreams       == { Stream(<<>>, "https://github.com/o/r/pull/1") }

(***************************************************************************)
(* Config (config.py 12-26).  None and "" are both falsy where the code    *)
(* tests user_context and docker_image, so "" stands for None.             *)
(***************************************************************************)
Configs ==
    [ max_iterations : 0..MaxIterations,
      dry_run        : BOOLEAN,
      create_pr      : BOOLEAN,
      use_docker     : BOOLEAN,
      docker_image   : {"", "ubuntu:22.04"},
      user_context   : {"", "We migrated from pip to uv!!"},
      target_doc_files : {<<"docs/getting-started.md", "README.rst">>},
      code_repo_path : {"/code"},
      docs_repo_path : {"/docs"} ]

(***************************************************************************)
(* The instructions run_pipeline builds                                    *)
(***************************************************************************)
AnalysisPrompt(c) ==
    "Use the code-analyzer agent to analyze the codebase at " \o c.code_repo_path
    \o ". Read the README and all relevant source files to produce a complete analysis report."
    \o (IF c.user_context # ""
        THEN "\n\nIMPORTANT CONTEXT FROM THE DEVELOPER:\n" \o c.user_context
             \o "\n\nPay special attention to the areas mentioned above."
        ELSE "")

BranchPrompt(c, branch_name) ==
    "Use the create_git_branch tool to create a branch named '" \o branch_name
    \o "' from 'main' in " \o c.docs_repo_path \o "."

FeedbackHeader ==
    "\n\nPREVIOUS VERIFICATION FAILED. Here is the failure report that must be addressed:\n"

\* "if verification_failure_context:" is a truthiness test: the empty text adds nothing
UpdatePrompt(c, failure_text) ==
    "Use the doc-updater agent to update the documentation files in " \o c.docs_repo_path
    \o " based on the analysis report above."
    \o (IF c.user_context # ""
        THEN "\n\nDEVELOPER CONTEXT (prioritize these areas):\n" \o c.user_context
        ELSE "")
    \o (IF failure_text # "" THEN FeedbackHeader \o failure_text ELSE "")
    \o (IF c.dry_run
        THEN "\n\nDRY RUN MODE: Show what changes you would make but do NOT actually write any files."
        ELSE "")

BaseVerifyPrompt ==
    "Use the doc-verifier agent to verify the documentation by following every step in a "
    \o "clean environment. Execute each command exactly as written and report results."

\* verify_prompt.lower() inside the sandbox variant of the instruction
LoweredVerifyPrompt == Lower(BaseVerifyPrompt)

SandboxRequested(c) == c.use_docker /\ c.docker_image # ""

VerifyPrompt(c) ==
    IF SandboxRequested(c)
    THEN "First, set up a verification environment using the setup_verification_env tool "
         \o "with base_image '" \o c.docker_image \o "'. Then " \o LoweredVerifyPrompt
         \o " After verification, tear down the environment."
    ELSE BaseVerifyPrompt

CommitPrompt(c) ==
    "Use the commit_changes tool to stage and commit all changes in " \o c.docs_repo_path
    \o " with commit message 'docs: auto-update setup documentation'. "
    \o "Then use get_git_diff to show the changes vs main."

PRPrompt(c) ==
    "Create a GitHub pull request from the current branch in " \o c.docs_repo_path
    \o " using the gh CLI. Title: 'docs: auto-update setup documentation'. "
    \o "Include a summary of all changes in the PR body."

(***************************************************************************)
(* Decisions of run_pipeline                                               *)
(***************************************************************************)
\* mutant: the dry-run test of the commit step inverted
CommitStepRunsInverted(c) == c.dry_run

\* "if not config.dry_run:" before the commit step
CommitStepRuns(c) == ~c.dry_run

\* mutant: the branch is created in dry runs only
BranchStepRunsInverted(c) == c.dry_run

\* "if not config.dry_run:" before the branch step
BranchStepRuns(c) == ~c.dry_run

\* mutant: every iteration starts with the analysis again
LoopBodyStartReanalyse(c) == "query_analysis"

\* the first statement of the loop body builds and issues the update instruction
LoopBodyStart(c) == "query_update"

\* mutant: the loop never leaves on a pass
LoopBreaksNever(passed) == FALSE

\* "if _verification_passed(verify_result): ... break"
LoopBreaks(passed) == passed

\* mutant: the feedback is set once and kept
NextFailureContextKeepsFirst(old, new) == IF old.text # "" THEN old ELSE new

\* "verification_failure_context = verify_result"; cycle is where the text came from
NextFailureContext(old, new) == new

\* mutant: the zero-based loop index is reported
IterationsUsedZeroBased(i) == i

\* "iterations_used = iteration + 1"
IterationsUsed(i) == i + 1

FinalStatus(text) == IF VerificationPassed(text) THEN "verified" ELSE "best_effort"

\* mutant: the commit step follows the loop in every mode
AfterLoopAlwaysCommit(c) == "query_commit"

\* mutant: the statement after the loop is never reached
AfterLoopStuck(c) == "loop_test"

AfterLoop(c) == IF CommitStepRuns(c) THEN "query_commit" ELSE "return"

\* the exception classes run_pipeline imports, each with its base class
Bases == [ClaudeSDKError     |-> "Exception",
          CLIConnectionError |-> "ClaudeSDKError",
          CLINotFoundError   |-> "CLIConnectionError",
          ProcessError       |-> "ClaudeSDKError",
          CLIJSONDecodeError |-> "ClaudeSDKError",
          MessageParseError  |-> "ClaudeSDKError"]

RECURSIVE IsInstance(_, _)
IsInstance(err, cls) ==
    \/ err = cls
    \/ err \in DOMAIN Bases /\ IsInstance(Bases[err], cls)

\* the except clauses of run_pipeline, in the order they are written
ExceptClauses == << [cls |-> "CLINotFoundError",   code |-> 1],
                   [cls |-> "ProcessError",       code |-> 2],
                   [cls |-> "CLIJSONDecodeError", code |-> 3],
                   [cls |-> "ClaudeSDKError",     code |-> 4] >>

MatchingClauses(err) == {i \in DOMAIN ExceptClauses : IsInstance(err, ExceptClauses[i].cls)}

\* mutant: the last clause that matches handles the exception
ExitCodeForLastMatch(err) ==
    LET last == CHOOSE i \in MatchingClauses(err) : \A j \in MatchingClauses(err) : j <= i
    IN ExceptClauses[last].code

\* Python runs the first except clause whose class the exception is an instance of
ExitCodeFor(err) ==
    LET first == CHOOSE i \in MatchingClauses(err) : \A j \in MatchingClauses(err) : i <= j
    IN ExceptClauses[first].code

\* mutant: the failed phase is asked again
OnEngineErrorRetry(at) ==
    IF at = "connect" THEN "connect" ELSE "query_" \o SubSeq(at, 9, Len(at))

\* "raise SystemExit(n)" in every except clause: the run ends where it failed
OnEngineError(at) == "exit"

\* int(time.time()) when the run derives its branch name
RunClock == {1700000000}

ConnectErrors == {"CLINotFoundError", "CLIConnectionError"}
PhaseErrors   == {"ProcessError", "CLIJSONDecodeError", "CLIConnectionError", "MessageParseError"}

QueryPcs   == {"query_analysis", "query_branch", "query_update", "query_verify",
               "query_commit", "query_pr"}
CollectPcs == {"collect_analysis", "collect_branch", "collect_update", "collect_verify",
               "collect_commit", "collect_pr"}
FinalPcs   == {"done", "exit", "cancelled"}

NoPrompt  == [phase |-> "", cycle |-> 0, text |-> "", feedback_from |-> 0]
NoContext == [text |-> "", cycle |-> 0]
NoResult  == [analysis |-> "", update |-> "", verification |-> "", pr_diff |-> "",
              iterations_used |-> 0, final_status |-> ""]
NoCall    == [fn |-> "", tool |-> "", input |-> <<>>, result |-> <<>>]
NoError   == ""

(***************************************************************************)
(* Verification-environment tools (tools.py 21-85)                         *)
(***************************************************************************)
\* dict.get(key, default)
Get(d, key, default) == IF key \in DOMAIN d THEN d[key] ELSE default

EmptyDict == <<>>

\* a call either returns a value or lets an exception propagate to its caller
Returned(value) == [raised |-> NoError, value |-> value]
Raised(exc)     == [raised |-> exc, value |-> <<>>]

\* Python s.strip() for the whitespace that occurs in the outputs modelled
Whitespace == {" ", "\n", "\t"}
RECURSIVE StripWhitespace(_)
StripWhitespace(s) ==
    IF Len(s) > 0 /\ SubSeq(s, 1, 1) \in Whitespace
    THEN StripWhitespace(SubSeq(s, 2, Len(s)))
    ELSE IF Len(s) > 0 /\ SubSeq(s, Len(s), Len(s)) \in Whitespace
    THEN StripWhitespace(SubSeq(s, 1, Len(s) - 1))
    ELSE s

\* what subprocess.run(["docker", "run", ...], timeout=120) can do: return with exit
\* status 0 or not, or raise FileNotFoundError (no docker binary), TimeoutExpired,
\* or another OSError of the launch (PermissionError: binary not executable)
SetupOutcomes == {"started", "nonzero_exit", "docker_missing", "timeout", "launch_error"}

DockerRunRaises(outcome) ==
    CASE outcome = "docker_missing" -> "FileNotFoundError"
      [] outcome = "timeout"        -> "TimeoutExpired"
      [] outcome = "launch_error"   -> "PermissionError"
      [] OTHER                      -> NoError

\* "except (FileNotFoundError, subprocess.TimeoutExpired): pass"
SetupCaught == {"FileNotFoundError", "TimeoutExpired"}

\* returncode 0 gives a docker handle; a caught exception and a non-zero exit fall
\* through to tempfile.mkdtemp; any other exception leaves the function
SetupVerificationEnv(args, outcome, stdout, tmpdir) ==
    LET base_image  == Get(args, "base_image", "ubuntu:22.04")
        working_dir == Get(args, "working_dir", "/workspace")
        exc         == DockerRunRaises(outcome)
    IN IF exc # NoError /\ exc \notin SetupCaught THEN Raised(exc)
       ELSE IF exc = NoError /\ outcome = "started"
       THEN Returned([type |-> "docker", container_id |-> StripWhitespace(stdout),
                      working_dir |-> working_dir])
       ELSE Returned([type |-> "tmpdir", path |-> tmpdir])

\* what the stop / delete operation of teardown can do
TeardownOutcomes == {"ok", "failed", "timeout", "tool_missing"}

\* subprocess.run(["docker", "stop", env_id], capture_output=True, timeout=30):
\* no check=True, so a non-zero exit returns; the exceptions are not caught
DockerStopRaises(outcome) ==
    CASE outcome = "timeout"      -> "TimeoutExpired"
      [] outcome = "tool_missing" -> "FileNotFoundError"
      [] OTHER                    -> NoError

CleanedUp == "Environment cleaned up."

\* args["env_type"], args["env_id"]; docker: docker stop; tmpdir:
\* shutil.rmtree(env_id, ignore_errors=True); anything else: nothing
TeardownVerificationEnv(args, outcome) ==
    IF "env_type" \notin DOMAIN args \/ "env_id" \notin DOMAIN args THEN Raised("KeyError")
    ELSE IF args["env_type"] = "docker" /\ DockerStopRaises(outcome) # NoError
    THEN Raised(DockerStopRaises(outcome))
    ELSE Returned(CleanedUp)

\* mutant: every tool is treated like Write and Edit
CanUseToolFiltersAll(docs_repo, tool_name, input_data) ==
    LET file_path == Get(input_data, "file_path", "")
    IN IF ~StartsWith(file_path, docs_repo)
       THEN [behavior |-> "deny", message |-> "not allowed", updated_input |-> EmptyDict]
       ELSE [behavior |-> "allow", message |-> "", updated_input |-> input_data]

\* mutant: stdout is returned whatever it is
GetGitDiffNoSubstitute(args, run) ==
    IF "repo_path" \notin DOMAIN args THEN Raised("KeyError") ELSE Returned(run.stdout)

\* args["repo_path"]; subprocess.run(["git", "diff", f"{base}...HEAD"], ...) without
\* check=True; the text returned is: result.stdout or "(no changes)"
GetGitDiff(args, run) ==
    IF "repo_path" \notin DOMAIN args THEN Raised("KeyError")
    ELSE Returned(IF run.stdout # "" THEN run.stdout ELSE "(no changes)")

\* the git commands create_git_branch runs, as argv lists
GitCheckout(branch) == <<"git", "checkout", "-b", branch>>
GitAdd              == <<"git", "add", "-A">>
GitCommit(message)  == <<"git", "commit", "-m", message>>

\* mutant: checkout and add run without check=True
CreateGitBranchUnchecked(args, run) ==
    IF "repo_path" \notin DOMAIN args \/ "branch_name" \notin DOMAIN args
    THEN Raised("KeyError") @@ [ran |-> <<>>]
    ELSE LET branch  == args["branch_name"]
             message == Get(args, "commit_message", "docs: auto-update documentation")
         IN Returned("Branch '" \o branch \o "' created and committed.\n" \o run.commit.stdout)
            @@ [ran |-> <<GitCheckout(branch), GitAdd, GitCommit(message)>>]

\* args["repo_path"], args["branch_name"], args.get("commit_message", ...); then
\* subprocess.run of checkout -b and of add -A with check=True (a non-zero exit raises
\* CalledProcessError, a missing git binary or directory FileNotFoundError), then of
\* commit without check; "ran" lists the commands that were started
CreateGitBranch(args, run) ==
    IF "repo_path" \notin DOMAIN args \/ "branch_name" \notin DOMAIN args
    THEN Raised("KeyError") @@ [ran |-> <<>>]
    ELSE LET branch  == args["branch_name"]
             message == Get(args, "commit_message", "docs: auto-update documentation")
         IN IF run.checkout = "not_found"
            THEN Raised("FileNotFoundError") @@ [ran |-> <<GitCheckout(branch)>>]
            ELSE IF run.checkout = "nonzero"
            THEN Raised("CalledProcessError") @@ [ran |-> <<GitCheckout(branch)>>]
            ELSE IF run.add = "nonzero"
            THEN Raised("CalledProcessError") @@ [ran |-> <<GitCheckout(branch), GitAdd>>]
            ELSE Returned("Branch '" \o branch \o "' created and committed.\n"
                          \o run.commit.stdout)
                 @@ [ran |-> <<GitCheckout(branch), GitAdd, GitCommit(message)>>]

\* allowed_tools of ClaudeAgentOptions
allowed_tools ==
    {"Read", "Bash", "Glob", "Grep", "Task",
     "mcp__doctools__setup_verification_env",
     "mcp__doctools__teardown_verification_env",
     "mcp__doctools__create_git_branch",
     "mcp__doctools__commit_changes",
     "mcp__doctools__get_git_diff"}

\* create_sdk_mcp_server(name="doctools", tools=[...]): the tools by their @tool names
CreateCustomToolsServer ==
    [name  |-> "doctools",
     tools |-> {"setup_verification_env", "teardown_verification_env",
                "create_git_branch", "get_git_diff"}]

\* the engine's name of a tool of an SDK server: mcp__<server>__<tool>
McpToolName(server, tool) == "mcp__" \o server \o "__" \o tool

\* the tools of the custom server that allowed_tools admits
AllowedCustomTools ==
    {SubSeq(t, Len(McpToolName(CreateCustomToolsServer.name, "")) + 1, Len(t)) :
        t \in {a \in allowed_tools :
                  StartsWith(a, McpToolName(CreateCustomToolsServer.name, ""))}}

\* what "git diff" can do: print a diff (or nothing) and exit 0, or fail and print
\* nothing on stdout
\* the arguments, outputs and directory names the tools are exercised with
SetupArgs ==
    {EmptyDict, [working_dir |-> "/app"]}
    \cup {[base_image |-> b] : b \in {"ubuntu:22.04", "python:3.12-slim"}}
    \cup {[base_image |-> b, working_dir |-> "/app"] : b \in {"ubuntu:22.04", "python:3.12-slim"}}

DockerStdouts == {"3f2a9c1d0b7e\n", "  77aa01e4\n"}
TmpDirs       == {"/tmp/doc-verify-a1b2c3", "/tmp/doc-verify-x9y8z7"}

TeardownArgs ==
    {[env_type |-> t, env_id |-> i] : t \in {"docker", "tmpdir", "vm"},
                                      i \in {"3f2a9c1d0b7e", "/tmp/doc-verify-a1b2c3"}}
    \cup {EmptyDict, [env_type |-> "docker"]}

LiveEnvs == {i \in DOMAIN envs : envs[i].live}

(***************************************************************************)
(* run_pipeline (orchestrator.py 150-345)                                  *)
(***************************************************************************)
Init ==
    /\ cfg \in Configs
    /\ pc = "connect"
    /\ iteration = -1
    /\ iterations_used = 0
    /\ analysis_result = ""
    /\ update_result = ""
    /\ verify_result = ""
    /\ pr_diff = ""
    /\ verification_failure_context = NoContext
    /\ prompt = NoPrompt
    /\ issued = <<>>
    /\ outcomes = <<>>
    /\ envs = <<>>
    /\ env_cur = 0
    /\ exit_code = -1
    /\ result = NoResult
    /\ completed = 0
    /\ error = NoError
    /\ call = NoCall

\* mutant: the update answer is not drained before the verify instruction is sent
AfterQueryUpdateUndrained(phase) ==
    IF phase = "update" THEN "query_verify" ELSE "collect_" \o phase

\* "await client.query(...)" is followed at once by "await _collect_result(client, ...)"
AfterQuery(phase) == "collect_" \o phase

Issue(phase, cycle, text, from) ==
    /\ prompt' = [phase |-> phase, cycle |-> cycle, text |-> text, feedback_from |-> from]
    /\ issued' = Append(issued, [phase |-> phase, cycle |-> cycle])

\* "async with ClaudeSDKClient(options=options) as client"
Connect ==
    /\ pc = "connect"
    /\ pc' = "query_analysis"
    /\ UNCHANGED <<completed, error, cfg, iteration, iterations_used, analysis_result, update_result,
                   verify_result, pr_diff, verification_failure_context, prompt, issued,
                   outcomes, envs, env_cur, exit_code, result, call>>

QueryAnalysis ==
    /\ pc = "query_analysis"
    /\ Issue("analysis", 0, AnalysisPrompt(cfg), 0)
    /\ pc' = AfterQuery("analysis")
    /\ UNCHANGED <<completed, error, cfg, iteration, iterations_used, analysis_result, update_result,
                   verify_result, pr_diff, verification_failure_context,
                   outcomes, envs, env_cur, exit_code, result, call>>

CollectAnalysis ==
    /\ pc = "collect_analysis"
    /\ \E s \in AnalysisStreams : analysis_result' = CollectResult(s, FALSE, FALSE)
    /\ pc' = IF BranchStepRuns(cfg) THEN "query_branch" ELSE "loop_test"
    /\ completed' = completed + 1
    /\ UNCHANGED <<error, cfg, iteration, iterations_used, update_result,
                   verify_result, pr_diff, verification_failure_context, prompt, issued,
                   outcomes, envs, env_cur, exit_code, result, call>>

QueryBranch ==
    /\ pc = "query_branch"
    /\ \E now \in RunClock : Issue("branch", 0, BranchPrompt(cfg, BuildBranchName(cfg, now)), 0)
    /\ pc' = AfterQuery("branch")
    /\ UNCHANGED <<completed, error, cfg, iteration, iterations_used, analysis_result, update_result,
                   verify_result, pr_diff, verification_failure_context,
                   outcomes, envs, env_cur, exit_code, result, call>>

\* "await _collect_result(client, quiet=True)": the text is not kept
CollectBranch ==
    /\ pc = "collect_branch"
    /\ \E s \in BranchStreams : CollectResult(s, TRUE, FALSE) \in STRING
    /\ pc' = "loop_test"
    /\ completed' = completed + 1
    /\ UNCHANGED <<error, cfg, iteration, iterations_used, analysis_result, update_result,
                   verify_result, pr_diff, verification_failure_context, prompt, issued,
                   outcomes, envs, env_cur, exit_code, result, call>>

\* "for iteration in range(config.max_iterations):" with its else clause
LoopTest ==
    /\ pc = "loop_test"
    /\ IF iteration + 1 < cfg.max_iterations
       THEN /\ iteration' = iteration + 1
            /\ iterations_used' = IterationsUsed(iteration + 1)
            /\ pc' = LoopBodyStart(cfg)
       ELSE /\ pc' = AfterLoop(cfg)
            /\ UNCHANGED <<iteration, iterations_used>>
    /\ UNCHANGED <<completed, error, cfg, analysis_result, update_result,
                   verify_result, pr_diff, verification_failure_context, prompt, issued,
                   outcomes, envs, env_cur, exit_code, result, call>>

QueryUpdate ==
    /\ pc = "query_update"
    /\ Issue("update", iteration + 1,
             UpdatePrompt(cfg, verification_failure_context.text),
             IF verification_failure_context.text # ""
             THEN verification_failure_context.cycle ELSE 0)
    /\ pc' = AfterQuery("update")
    /\ UNCHANGED <<completed, error, cfg, iteration, iterations_used, analysis_result, update_result,
                   verify_result, pr_diff, verification_failure_context,
                   outcomes, envs, env_cur, exit_code, result, call>>

CollectUpdate ==
    /\ pc = "collect_update"
    /\ \E s \in UpdateStreams : update_result' = CollectResult(s, FALSE, FALSE)
    /\ pc' = "query_verify"
    /\ completed' = completed + 1
    /\ UNCHANGED <<error, cfg, iteration, iterations_used, analysis_result,
                   verify_result, pr_diff, verification_failure_context, prompt, issued,
                   outcomes, envs, env_cur, exit_code, result, call>>

QueryVerify ==
    /\ pc = "query_verify"
    /\ Issue("verify", iteration + 1, VerifyPrompt(cfg), 0)
    /\ pc' = AfterQuery("verify")
    /\ UNCHANGED <<completed, error, cfg, iteration, iterations_used, analysis_result, update_result,
                   verify_result, pr_diff, verification_failure_context,
                   outcomes, envs, env_cur, exit_code, result, call>>

\* the engine calls setup_verification_env as the verify instruction asks
SetupEnv ==
    /\ pc = "collect_verify"
    /\ SandboxRequested(cfg)
    /\ env_cur = 0
    /\ \E o \in SetupOutcomes, out \in DockerStdouts, dir \in TmpDirs :
          /\ SetupVerificationEnv([base_image |-> cfg.docker_image], o, out, dir).raised
                = NoError
          /\ envs' = Append(envs, [live |-> TRUE, releases |-> 0])
    /\ env_cur' = Len(envs) + 1
    /\ UNCHANGED <<completed, error, cfg, pc, iteration, iterations_used, analysis_result, update_result,
                   verify_result, pr_diff, verification_failure_context, prompt, issued,
                   outcomes, exit_code, result, call>>

\* the engine calls teardown_verification_env on the handle it was given
TeardownEnv ==
    /\ pc = "collect_verify"
    /\ env_cur # 0
    /\ envs[env_cur].live
    /\ \E a \in TeardownArgs, o \in TeardownOutcomes :
          TeardownVerificationEnv(a, o).raised = NoError
    /\ envs' = [envs EXCEPT ![env_cur].live = FALSE, ![env_cur].releases = @ + 1]
    /\ UNCHANGED <<completed, error, cfg, pc, iteration, iterations_used, analysis_result, update_result,
                   verify_result, pr_diff, verification_failure_context, prompt, issued,
                   outcomes, env_cur, exit_code, result, call>>

\* the ResultMessage of the verify phase arrives; pass/fail decides the loop
CollectVerify ==
    /\ pc = "collect_verify"
    /\ \E s \in VerifyStreams :
          LET text   == CollectResult(s, FALSE, TRUE)
              passed == VerificationPassed(text)
          IN /\ verify_result' = text
             /\ outcomes' = Append(outcomes, passed)
             /\ IF LoopBreaks(passed)
                THEN /\ pc' = AfterLoop(cfg)
                     /\ UNCHANGED verification_failure_context
                ELSE /\ pc' = "loop_test"
                     /\ verification_failure_context' =
                            NextFailureContext(verification_failure_context,
                                               [text |-> text, cycle |-> iterations_used])
    /\ env_cur' = 0
    /\ completed' = completed + 1
    /\ UNCHANGED <<error, cfg, iteration, iterations_used, analysis_result, update_result,
                   pr_diff, prompt, issued, envs, exit_code, result, call>>

QueryCommit ==
    /\ pc = "query_commit"
    /\ Issue("commit", 0, CommitPrompt(cfg), 0)
    /\ pc' = AfterQuery("commit")
    /\ UNCHANGED <<completed, error, cfg, iteration, iterations_used, analysis_result, update_result,
                   verify_result, pr_diff, verification_failure_context,
                   outcomes, envs, env_cur, exit_code, result, call>>

CollectCommit ==
    /\ pc = "collect_commit"
    /\ \E s \in CommitStreams : pr_diff' = CollectResult(s, TRUE, FALSE)
    /\ pc' = IF cfg.create_pr THEN "query_pr" ELSE "return"
    /\ completed' = completed + 1
    /\ UNCHANGED <<error, cfg, iteration, iterations_used, analysis_result, update_result,
                   verify_result, verification_failure_context, prompt, issued,
                   outcomes, envs, env_cur, exit_code, result, call>>

QueryPR ==
    /\ pc = "query_pr"
    /\ Issue("pr", 0, PRPrompt(cfg), 0)
    /\ pc' = AfterQuery("pr")
    /\ UNCHANGED <<completed, error, cfg, iteration, iterations_used, analysis_result, update_result,
                   verify_result, pr_diff, verification_failure_context,
                   outcomes, envs, env_cur, exit_code, result, call>>

\* the text of the PR phase is printed, not kept
CollectPR ==
    /\ pc = "collect_pr"
    /\ \E s \in PRStreams : CollectResult(s, FALSE, FALSE) \in STRING
    /\ pc' = "return"
    /\ completed' = completed + 1
    /\ UNCHANGED <<error, cfg, iteration, iterations_used, analysis_result, update_result,
                   verify_result, pr_diff, verification_failure_context, prompt, issued,
                   outcomes, envs, env_cur, exit_code, result, call>>

\* lines 336-345, then main() prints the summary and the process ends normally
Return ==
    /\ pc = "return"
    /\ result' = [analysis |-> analysis_result, update |-> update_result,
                  verification |-> verify_result, pr_diff |-> pr_diff,
                  iterations_used |-> iterations_used,
                  final_status |-> FinalStatus(verify_result)]
    /\ pc' = "done"
    /\ exit_code' = 0
    /\ UNCHANGED <<completed, error, cfg, iteration, iterations_used, analysis_result, update_result,
                   verify_result, pr_diff, verification_failure_context, prompt, issued,
                   outcomes, envs, env_cur, call>>

\* the except clauses: an SDK error at any await inside the try ends the process
ConnectFails ==
    /\ pc = "connect"
    /\ \E e \in ConnectErrors :
          /\ error' = e
          /\ exit_code' = ExitCodeFor(e)
    /\ pc' = OnEngineError(pc)
    /\ UNCHANGED <<completed, cfg, iteration, iterations_used, analysis_result, update_result,
                   verify_result, pr_diff, verification_failure_context, prompt, issued,
                   outcomes, envs, env_cur, result, call>>

PhaseFails ==
    /\ pc \in CollectPcs
    /\ \E e \in PhaseErrors :
          /\ error' = e
          /\ exit_code' = ExitCodeFor(e)
    /\ pc' = OnEngineError(pc)
    /\ UNCHANGED <<completed, cfg, iteration, iterations_used, analysis_result, update_result,
                   verify_result, pr_diff, verification_failure_context, prompt, issued,
                   outcomes, envs, env_cur, result, call>>

\* KeyboardInterrupt / task cancellation at an await: no except clause catches it
Cancel ==
    /\ pc \in CollectPcs \cup {"connect"}
    /\ pc' = "cancelled"
    /\ UNCHANGED <<completed, error, cfg, iteration, iterations_used, analysis_result, update_result,
                   verify_result, pr_diff, verification_failure_context, prompt, issued,
                   outcomes, envs, env_cur, exit_code, result, call>>

Next ==
    \/ Connect
    \/ QueryAnalysis
    \/ CollectAnalysis
    \/ QueryBranch
    \/ CollectBranch
    \/ LoopTest
    \/ QueryUpdate
    \/ CollectUpdate
    \/ QueryVerify
    \/ SetupEnv
    \/ TeardownEnv
    \/ CollectVerify
    \/ QueryCommit
    \/ CollectCommit
    \/ QueryPR
    \/ CollectPR
    \/ Return
    \/ ConnectFails
    \/ PhaseFails
    \/ Cancel

Spec == Init /\ [][Next]_vars

\* a run that is not interrupted: every await ends with the ResultMessage or with an
\* SDK error, and asyncio runs the coroutine on whenever it can go on
RunNext ==
    \/ Connect
    \/ QueryAnalysis
    \/ CollectAnalysis
    \/ QueryBranch
    \/ CollectBranch
    \/ LoopTest
    \/ QueryUpdate
    \/ CollectUpdate
    \/ QueryVerify
    \/ SetupEnv
    \/ TeardownEnv
    \/ CollectVerify
    \/ QueryCommit
    \/ CollectCommit
    \/ QueryPR
    \/ CollectPR
    \/ Return
    \/ ConnectFails
    \/ PhaseFails

LiveSpec == Init /\ [][RunNext]_vars /\ WF_vars(RunNext)

(***************************************************************************)
(* Tool inputs are Python dicts: functions from keys to strings            *)
(***************************************************************************)
(***************************************************************************)
(* Write-boundary guard (permissions.py 7-41)                              *)
(***************************************************************************)
SENSITIVE_PATTERNS == <<".env", "credentials", "secret", ".ssh", ".key", ".pem">>

\* any(p in file_path.lower() for p in SENSITIVE_PATTERNS)
IsSensitive(file_path) ==
    LET lower == Lower(file_path)
    IN \E i \in DOMAIN SENSITIVE_PATTERNS : Contains(lower, SENSITIVE_PATTERNS[i])

Allow(input_data) == [behavior |-> "allow", message |-> "", updated_input |-> input_data]
\* mutant: a denial without its reason
DenySilently(message) == [behavior |-> "deny", message |-> "", updated_input |-> EmptyDict]

Deny(message)     == [behavior |-> "deny", message |-> message, updated_input |-> EmptyDict]

CanUseTool(docs_repo, tool_name, input_data) ==
    IF tool_name \in {"Write", "Edit"}
    THEN LET file_path == Get(input_data, "file_path", "")
         IN IF ~StartsWith(file_path, docs_repo)
            THEN Deny("Write/Edit only allowed in docs repo (" \o docs_repo
                      \o "). Attempted: " \o file_path)
            ELSE IF IsSensitive(file_path)
            THEN Deny("Cannot write to sensitive file: " \o file_path)
            ELSE Allow(input_data)
    ELSE Allow(input_data)

GuardTools == {"Write", "Edit", "Read", "Bash"}

GuardPaths ==
    LET PathPrefixes == {"/docs", "/docs-private", "/etc", "docs"}
        PathMiddles  == {"", "/..", "/guides", "/.ssh"}
        PathTails    == {"", "/guide.md", "/.env", "/.ENV.local", "/id.PEM", "/Secrets.md",
                         "/credentials.json", "/server.key", "/passwd"}
    IN {a \o b \o c : a \in PathPrefixes, b \in PathMiddles, c \in PathTails}

GuardInputs ==
    {[file_path |-> f] : f \in GuardPaths} \cup {EmptyDict, [command |-> "ls"]}

\* the SDK asks can_use_tool before a tool runs
CanUseToolCall ==
    /\ \E t \in GuardTools, d \in GuardInputs :
          call' = [fn |-> "can_use_tool", tool |-> t, input |-> d,
                   result |-> CanUseTool(cfg.docs_repo_path, t, d)]
    /\ UNCHANGED pipeVars

(***************************************************************************)
(* Bash safety hook (hooks.py 11-43)                                       *)
(***************************************************************************)
DANGEROUS_PATTERNS ==
    <<"rm -rf /", "rm -rf ~", "sudo rm", "> /dev/sda", "mkfs", "dd if=", ":(){:|:&};:">>

HookAllow == [decision |-> "", reason |-> ""]
HookDeny(pattern) ==
    [decision |-> "deny", reason |-> "Blocked dangerous pattern: " \o pattern]

\* "for pattern in DANGEROUS_PATTERNS: if pattern in command: return deny"
RECURSIVE FirstMatch(_, _)
FirstMatch(patterns, command) ==
    IF Len(patterns) = 0 THEN HookAllow
    ELSE IF Contains(command, Head(patterns)) THEN HookDeny(Head(patterns))
    ELSE FirstMatch(Tail(patterns), command)

\* mutant: the pattern is only looked for at the start of the command
RECURSIVE FirstPrefixMatch(_, _)
FirstPrefixMatch(patterns, command) ==
    IF Len(patterns) = 0 THEN HookAllow
    ELSE IF StartsWith(command, Head(patterns)) THEN HookDeny(Head(patterns))
    ELSE FirstPrefixMatch(Tail(patterns), command)

BlockDangerousBashPrefixOnly(tool_name, tool_input) ==
    IF tool_name # "Bash" THEN HookAllow
    ELSE FirstPrefixMatch(DANGEROUS_PATTERNS, Get(tool_input, "command", ""))

BlockDangerousBash(tool_name, tool_input) ==
    IF tool_name # "Bash" THEN HookAllow
    ELSE FirstMatch(DANGEROUS_PATTERNS, Get(tool_input, "command", ""))

HookCommands ==
    LET CommandHeads == {"", "echo hi && ", "cd /tmp; "}
        CommandCores == {"rm -rf /", "rm -rf ~", "sudo rm", "> /dev/sda", "mkfs", "dd if=",
                         ":(){:|:&};:", "rm -rf ./build", "RM -RF /", "rm  -rf /",
                         "rm -r -f /", "mkf", "ls -la", "", "sudo  rm", "dd  if=",
                         "cat x >/dev/sda"}
        CommandTails == {"", "tmp/x", " && sudo rm -r /var", ".ext4 /dev/sdb1", " # done"}
    IN {a \o b \o c : a \in CommandHeads, b \in CommandCores, c \in CommandTails}

HookInputs == {[command |-> c] : c \in HookCommands} \cup {EmptyDict}

\* the PreToolUse hook runs before a tool call
BlockDangerousBashCall ==
    /\ \E t \in {"Bash", "Write"}, d \in HookInputs :
          call' = [fn |-> "block_dangerous_bash", tool |-> t, input |-> d,
                   result |-> BlockDangerousBash(t, d)]
    /\ UNCHANGED pipeVars

GuardInit == Init /\ cfg.max_iterations = 0 /\ ~cfg.dry_run /\ ~cfg.create_pr
               /\ cfg.use_docker /\ cfg.docker_image = "" /\ cfg.user_context = ""

GuardSpec == GuardInit /\ [][CanUseToolCall]_vars

HookSpec == GuardInit /\ [][BlockDangerousBashCall]_vars

\* the same handler in a run started with --dry-run: create_permission_handler
\* reads docs_repo_path only, so the handler is built the same way
DryRunGuardInit == Init /\ cfg.max_iterations = 1 /\ cfg.dry_run /\ ~cfg.create_pr
                     /\ cfg.use_docker /\ cfg.docker_image = "" /\ cfg.user_context = ""

DryRunGuardSpec == DryRunGuardInit /\ [][CanUseToolCall]_vars

\* the MCP server runs a tool of tools.py when the engine calls it
SetupVerificationEnvCall ==
    /\ \E a \in SetupArgs, o \in SetupOutcomes, out \in DockerStdouts, dir \in TmpDirs :
          call' = [fn |-> "setup_verification_env", tool |-> "",
                   input |-> [args |-> a, outcome |-> o, stdout |-> out, tmpdir |-> dir],
                   result |-> SetupVerificationEnv(a, o, out, dir)]
    /\ UNCHANGED pipeVars

TeardownVerificationEnvCall ==
    /\ \E a \in TeardownArgs, o \in TeardownOutcomes :
          call' = [fn |-> "teardown_verification_env", tool |-> "",
                   input |-> [args |-> a, outcome |-> o],
                   result |-> TeardownVerificationEnv(a, o)]
    /\ UNCHANGED pipeVars

\* the pipeline variables of a run that has not started, for the specifications
\* that exercise one function on inputs drawn at the start
PipeIdle ==
    /\ cfg \in Configs
    /\ cfg.max_iterations = 0 /\ ~cfg.dry_run /\ ~cfg.create_pr
    /\ cfg.use_docker /\ cfg.docker_image = "" /\ cfg.user_context = ""
    /\ pc = "connect"
    /\ iteration = -1
    /\ iterations_used = 0
    /\ analysis_result = ""
    /\ update_result = ""
    /\ verify_result = ""
    /\ pr_diff = ""
    /\ verification_failure_context = NoContext
    /\ prompt = NoPrompt
    /\ issued = <<>>
    /\ outcomes = <<>>
    /\ envs = <<>>
    /\ env_cur = 0
    /\ exit_code = -1
    /\ result = NoResult
    /\ completed = 0
    /\ error = NoError

\* a call whose arguments are fixed and whose body has not run yet
Pending(fn, input) == [fn |-> fn, tool |-> "pending", input |-> input, result |-> <<>>]

\* the response streams _collect_result is exercised with
StreamBlocks == {TextBlock("first"), TextBlock("second"),
                 ToolUseBlock("Bash", "make test"), ToolUseBlock("Task", "")}
MaxBlocks == 3

\* every stream of at most MaxBlocks blocks, with and without a final result text,
\* under every combination of quiet and show_commands
CollectInit ==
    /\ PipeIdle
    /\ call \in {Pending("_collect_result",
                          [stream |-> Stream(bs, r), quiet |-> q, show_commands |-> sc]) :
                      bs \in UNION {[1..n -> StreamBlocks] : n \in 0..MaxBlocks},
                      r \in {"", "All steps passed"}, q \in BOOLEAN, sc \in BOOLEAN}

\* "await _collect_result(client, quiet=..., show_commands=...)"
CollectResultCall ==
    /\ call.fn = "_collect_result"
    /\ call.tool = "pending"
    /\ call' = [call EXCEPT !.tool = "",
                            !.result = CollectRun(call.input.stream, call.input.quiet,
                                                  call.input.show_commands)
                                       @@ [text |-> CollectResult(call.input.stream,
                                                                  call.input.quiet,
                                                                  call.input.show_commands)]]
    /\ UNCHANGED pipeVars

CollectSpec == CollectInit /\ [][CollectResultCall]_vars

\* the contexts, file lists and clock readings _build_branch_name is exercised with
BranchContexts ==
    LET ContextHeads == {"", "--"}
        ContextCores ==
            {"We migrated from pip to uv!!", "Fix: API_v2 (beta) -- docs", "!!!",
             "Renamed the CLI flag --out-dir to --output; all guides, ALL examples & FAQ",
             "1234567890123456789012345678901234567890123456789012345678 - tail"}
        ContextTails == {"", "..."}
    IN {h \o c \o t : h \in ContextHeads, c \in ContextCores, t \in ContextTails} \cup {""}

BranchFileLists ==
    { <<>>,
      <<"docs/getting-started.md">>,
      <<"docs/getting-started.md", "README.rst">>,
      <<"README.rst", "docs/getting-started.md">>,
      <<"docs/getting-started.md", "README.rst", "a/b/c.md.rst", "zz.md">>,
      <<"docs/setup.txt", "guide">>,
      <<"x.rst.md", "docs/api/index.md", "CHANGELOG.rst", "extra.md", "more.rst">> }

BranchClock == {1700000000, 1700000001}

\* run_pipeline calls _build_branch_name(config); time.time() is read inside
BuildBranchNameCall ==
    /\ \E ctx \in BranchContexts, files \in BranchFileLists, now \in BranchClock :
          call' = [fn |-> "_build_branch_name", tool |-> "",
                   input |-> [user_context |-> ctx, target_doc_files |-> files,
                              timestamp |-> now],
                   result |-> BuildBranchName([user_context |-> ctx,
                                               target_doc_files |-> files], now)]
    /\ UNCHANGED pipeVars

BranchSpec == GuardInit /\ [][BuildBranchNameCall]_vars

\* time.time() is a float of seconds; int() drops the fraction
IntTime(t) == t.sec

RunInputs ==
    [user_context : {"", "We migrated from pip to uv!!"},
     target_doc_files : {<<"docs/getting-started.md">>, <<"README.rst">>},
     started : [sec : BranchClock, ms : {0, 999}]]

TwoRunsInit ==
    PipeIdle /\ call \in {Pending("_build_branch_name in two runs", <<a, b>>) :
                             a \in RunInputs, b \in RunInputs}

\* two runs of the program, each deriving its branch name when it gets there
TwoRunsBuildBranchName ==
    /\ call.fn = "_build_branch_name in two runs"
    /\ call.tool = "pending"
    /\ call' = [call EXCEPT !.tool = "",
                            !.result = [r \in 1..2 |->
                                          BuildBranchName(call.input[r],
                                                          IntTime(call.input[r].started))]]
    /\ UNCHANGED pipeVars

TwoRunsSpec == TwoRunsInit /\ [][TwoRunsBuildBranchName]_vars

GetGitDiffCall ==
    /\ \E a \in {EmptyDict, [repo_path |-> "/docs"],
                  [repo_path |-> "/docs", base_branch |-> "master"]},
          run \in {[returncode |-> 0, stdout |-> out] :
                      out \in {"", "\n", "diff --git a/setup.md b/setup.md\n+uv sync\n"}}
                  \cup {[returncode |-> 128, stdout |-> ""]} :
          call' = [fn |-> "get_git_diff", tool |-> "",
                   input |-> [args |-> a, run |-> run],
                   result |-> GetGitDiff(a, run)]
    /\ UNCHANGED pipeVars

\* the engine calls create_git_branch; git checkout -b and git add -A exit with 0 or
\* not (or git cannot be started), git commit commits or finds nothing to commit
CreateGitBranchCall ==
    /\ \E a \in {EmptyDict, [repo_path |-> "/docs"],
                  [repo_path |-> "/docs", branch_name |-> "docs/auto-update-1700000000"],
                  [repo_path |-> "/docs", branch_name |-> "docs/auto-update-1700000000",
                   commit_message |-> "docs: refresh"]},
          run \in [checkout : {"ok", "nonzero", "not_found"},
                   add      : {"ok", "nonzero"},
                   commit   : {[returncode |-> 0, stdout |-> "1 file changed\n"],
                               [returncode |-> 1,
                                stdout |-> "nothing to commit, working tree clean\n"]}] :
          call' = [fn |-> "create_git_branch", tool |-> "",
                   input |-> [args |-> a, run |-> run],
                   result |-> CreateGitBranch(a, run)]
    /\ UNCHANGED pipeVars

ToolNext ==
    \/ SetupVerificationEnvCall
    \/ TeardownVerificationEnvCall
    \/ GetGitDiffCall
    \/ CreateGitBranchCall

ToolSpec == GuardInit /\ [][ToolNext]_vars

(***************************************************************************)
(* History helpers                                                         *)
(***************************************************************************)
Count(phase) == Cardinality({i \in DOMAIN issued : issued[i].phase = phase})

LastOutcome == Len(outcomes) > 0 /\ outcomes[Len(outcomes)]

\* the for loop was left through break or exhaustion (not by an error or interrupt)
LoopLeft == pc \in {"query_commit", "return", "done"} \/ Count("commit") > 0

Unmarked(text) == ~HasPassMarker(text) /\ ~HasFailMarker(text)

(***************************************************************************)
(* Claims                                                                  *)
(***************************************************************************)

C2_FeedbackThreading ==
    prompt.phase = "update" =>
        /\ prompt.feedback_from < prompt.cycle
        /\ prompt.cycle = 1 => prompt.text = UpdatePrompt(cfg, "")
        /\ prompt.cycle > 1 =>
              /\ Contains(prompt.text, verify_result)
              /\ prompt.text = UpdatePrompt(cfg, verify_result)
              /\ prompt.feedback_from \in {0, prompt.cycle - 1}
              /\ prompt.feedback_from = 0 => verify_result = ""

C2_Witness ==
    /\ pc = "collect_update"
    /\ prompt.cycle = 3
    /\ prompt.feedback_from = 2
    /\ verify_result = "{\"Overall_Status\":\"FAIL\"}"
    /\ verification_failure_context.text = verify_result

\* C3: when a VERIFY has just returned a text without any overall-status marker, its
\* outcome is FAIL: the loop goes on unless the budget is used up, and a run whose
\* last VERIFY text has no marker never reports verified.
C3_FailClosed ==
    /\ (pc \in {"loop_test", "query_commit", "return", "done"}
          /\ Len(outcomes) > 0 /\ Unmarked(verify_result)) =>
          /\ ~outcomes[Len(outcomes)]
          /\ pc # "loop_test" => Count("update") = cfg.max_iterations
    /\ (pc = "done" /\ Unmarked(result.verification)) => result.final_status = "best_effort"

C3_Witness ==
    /\ pc = "done"
    /\ Len(outcomes) = 2
    /\ Unmarked(verify_result)
    /\ verify_result # ""
    /\ result.final_status = "best_effort"

\* C4: a VERIFY text counts as PASS only if it holds a pass marker, and every text
\* holding a fail marker counts as FAIL, even with a pass marker elsewhere in it.
C4_FailMarkerWins ==
    Len(outcomes) > 0 =>
        /\ outcomes[Len(outcomes)] => HasPassMarker(verify_result)
        /\ HasFailMarker(verify_result) => ~outcomes[Len(outcomes)]

\* C5: a returned PipelineResult says verified exactly when the last VERIFY passed,
\* best_effort otherwise, and iterations_used is the number of cycles executed.
C5_FinalStatus ==
    pc = "done" =>
        /\ result.final_status = (IF LastOutcome THEN "verified" ELSE "best_effort")
        /\ result.iterations_used = Count("update")
        /\ result.iterations_used = Len(outcomes)
        /\ (Len(outcomes) > 0 /\ outcomes[1]) => result.iterations_used = 1
        /\ (\A i \in DOMAIN outcomes : ~outcomes[i]) =>
              result.iterations_used = cfg.max_iterations

C5_Witness ==
    /\ pc = "done"
    /\ result.final_status = "verified"
    /\ result.iterations_used = 1
    /\ cfg.max_iterations = 3

\* C6: when all max_iterations VERIFYs fail and the run is no dry run, commit/diff is
\* the next instruction issued, once, after the last VERIFY, and the run returns
\* best_effort with iterations_used = max_iterations.
C6_BestEffortCommit ==
    /\ Count("commit") <= 1
    /\ \A i, j \in DOMAIN issued :
          (issued[i].phase = "commit" /\ issued[j].phase \in {"update", "verify"}) => j < i
    /\ (pc = "done" /\ ~cfg.dry_run) => Count("commit") = 1
    /\ (cfg.max_iterations > 0 /\ Len(outcomes) = cfg.max_iterations /\ ~LastOutcome
          /\ ~cfg.dry_run /\ pc \notin {"loop_test", "query_commit"}) =>
          /\ Count("commit") = 1
          /\ iterations_used = cfg.max_iterations
    /\ (pc = "done" /\ ~cfg.dry_run /\ ~LastOutcome) =>
          /\ result.final_status = "best_effort"
          /\ result.iterations_used = cfg.max_iterations

C6_Witness ==
    /\ pc = "done"
    /\ ~cfg.dry_run
    /\ cfg.max_iterations = 3
    /\ outcomes = <<FALSE, FALSE, FALSE>>
    /\ Count("commit") = 1
    /\ result.final_status = "best_effort"

\* C9: when the run has ended (returned, exited on an engine error, or was
\* interrupted) every acquired verification environment was released exactly once.
C9_ReleasedAtExit ==
    pc \in FinalPcs => \A i \in DOMAIN envs : ~envs[i].live /\ envs[i].releases = 1

\* C10: at most one verification environment is live at any time.
C10_OneLiveEnv == Cardinality(LiveEnvs) <= 1


(***************************************************************************)
(* Lexical containment, as the guard's contract words it                   *)
(***************************************************************************)
\* the components of a path, split at "/"
RECURSIVE SplitPath(_, _, _)
SplitPath(path, i, cur) ==
    IF i > Len(path) THEN <<cur>>
    ELSE IF SubSeq(path, i, i) = "/" THEN <<cur>> \o SplitPath(path, i + 1, "")
    ELSE SplitPath(path, i + 1, cur \o SubSeq(path, i, i))

\* "." and "" dropped, ".." removes the component before it
RECURSIVE Normalize(_, _)
Normalize(parts, acc) ==
    IF Len(parts) = 0 THEN acc
    ELSE IF Head(parts) \in {"", "."} THEN Normalize(Tail(parts), acc)
    ELSE IF Head(parts) = ".."
         THEN Normalize(Tail(parts), IF Len(acc) = 0 THEN acc ELSE SubSeq(acc, 1, Len(acc) - 1))
    ELSE Normalize(Tail(parts), Append(acc, Head(parts)))

IsAbsolute(path) == StartsWith(path, "/")

InsideRoot(root, path) ==
    LET r == Normalize(SplitPath(root, 1, ""), <<>>)
        q == Normalize(SplitPath(path, 1, ""), <<>>)
    IN /\ IsAbsolute(path)
       /\ Len(r) <= Len(q)
       /\ SubSeq(q, 1, Len(r)) = r

\* C7: a Write or Edit is allowed exactly when its path is lexically inside the
\* documentation root and its lowercased form holds no sensitive substring.
C7_WriteBoundary ==
    (call.fn = "can_use_tool" /\ call.tool \in {"Write", "Edit"}) =>
        LET file_path == Get(call.input, "file_path", "")
        IN (call.result.behavior = "allow")
              <=> (InsideRoot(cfg.docs_repo_path, file_path) /\ ~IsSensitive(file_path))

\* C8: a Bash command is denied exactly when it contains a pattern of the denylist,
\* and the reason of a denial names a pattern that occurs in the command.
C8_DenylistExact ==
    (call.fn = "block_dangerous_bash" /\ call.tool = "Bash") =>
        LET command == Get(call.input, "command", "")
            hits == {i \in DOMAIN DANGEROUS_PATTERNS : Contains(command, DANGEROUS_PATTERNS[i])}
        IN /\ (call.result.decision = "deny") <=> (hits # {})
           /\ call.result.decision # "deny" => call.result = HookAllow
           /\ call.result.decision = "deny" =>
                 \E i \in hits :
                    call.result.reason = "Blocked dangerous pattern: " \o DANGEROUS_PATTERNS[i]

C8_Witness ==
    /\ call.fn = "block_dangerous_bash"
    /\ call.tool = "Bash"
    /\ Get(call.input, "command", "") = "echo hi && rm -rf /tmp/x"
    /\ call.result.decision = "deny"
    /\ call.result.reason = "Blocked dangerous pattern: rm -rf /"

(***************************************************************************)
(* Error handling and phase order                                          *)
(***************************************************************************)
\* the phases before position i of the history have all been drained to their end
CompletedBefore(i) == completed >= i - 1

\* C11: an engine error in any phase (or while connecting) ends the run on the spot:
\* the step that raises it and every later step issue no instruction, do not drain
\* any phase again, leave the run at its exit and return no PipelineResult.
C11_AbortImmediately ==
    [][error' # NoError =>
          /\ pc' = "exit"
          /\ issued' = issued
          /\ prompt' = prompt
          /\ completed' = completed
          /\ result' = NoResult]_vars

C11_Witness ==
    /\ pc = "exit"
    /\ error = "ProcessError"
    /\ prompt.phase = "verify"
    /\ prompt.cycle = 2
    /\ Count("verify") = 2
    /\ completed = Len(issued) - 1
    /\ result = NoResult

\* C12: a run that returns a PipelineResult ends with status 0; a run ended by an
\* engine error ends with 1 (CLI missing), 2 (process failure), 3 (malformed output)
\* or 4 (any other SDK error); a missing CLI gives 1, never 4; no status is set
\* while the run is under way.
C12_ExitStatus ==
    /\ (pc = "done") <=> (exit_code = 0)
    /\ pc = "done" => (result # NoResult /\ error = NoError)
    /\ (pc = "exit") <=> (error # NoError)
    /\ pc = "exit" =>
          /\ result = NoResult
          /\ exit_code = CASE error = "CLINotFoundError"   -> 1
                           [] error = "ProcessError"       -> 2
                           [] error = "CLIJSONDecodeError" -> 3
                           [] OTHER                        -> 4
    /\ pc \notin {"done", "exit"} => exit_code = -1

C12_Witness ==
    /\ pc = "exit"
    /\ error = "CLINotFoundError"
    /\ IsInstance(error, "ClaudeSDKError")
    /\ exit_code = 1

\* C13: the analysis instruction is the first instruction of the run and the only
\* one of its kind; it has been drained before anything else is issued, and a run
\* that returns has issued it exactly once.
C13_AnalysisOnce ==
    /\ \A i \in DOMAIN issued : (issued[i].phase = "analysis") <=> (i = 1)
    /\ \A i \in DOMAIN issued :
          issued[i].phase \in {"branch", "update"} => (completed >= 1 /\ CompletedBefore(i))
    /\ pc = "done" => Count("analysis") = 1

C13_Witness ==
    /\ pc = "done"
    /\ Count("analysis") = 1
    /\ Count("branch") = 1
    /\ Count("update") = 3

\* C14: in a run that is no dry run, branch creation is issued at most once, it is
\* issued and drained before the first UPDATE, commit/diff is issued at most once and
\* only after every VERIFY has been issued and drained, and a run that returns has
\* issued each of the two exactly once.
C14_BranchAndCommitOnce ==
    ~cfg.dry_run =>
        /\ Count("branch") <= 1
        /\ Count("commit") <= 1
        /\ \A i \in DOMAIN issued :
              issued[i].phase = "update" =>
                  \E j \in 1..(i - 1) : issued[j].phase = "branch" /\ completed >= j
        /\ \A i \in DOMAIN issued :
              issued[i].phase = "commit" =>
                  /\ CompletedBefore(i)
                  /\ \A j \in DOMAIN issued : issued[j].phase = "verify" => j < i
        /\ pc = "done" => (Count("branch") = 1 /\ Count("commit") = 1)

C14_Witness ==
    /\ pc = "done"
    /\ ~cfg.dry_run
    /\ outcomes = <<FALSE, TRUE>>
    /\ Count("branch") = 1
    /\ Count("commit") = 1

\* C15: in a dry run no branch, commit/diff or PR instruction is ever issued, whatever
\* the verdicts are, and the diff text held and returned is empty.
C15_DryRunIssuesNothing ==
    cfg.dry_run =>
        /\ Count("branch") = 0
        /\ Count("commit") = 0
        /\ Count("pr") = 0
        /\ pr_diff = ""
        /\ pc = "done" => result.pr_diff = ""

C15_Witness ==
    /\ pc = "done"
    /\ cfg.dry_run
    /\ cfg.create_pr
    /\ outcomes = <<FALSE, FALSE, TRUE>>
    /\ result.pr_diff = ""
    /\ result.final_status = "verified"

\* C16: in a run started with --dry-run the permission handler allows no Write and no
\* Edit whose path is inside the documentation repository.
C16_DryRunDeniesWrites ==
    (call.fn = "can_use_tool" /\ cfg.dry_run /\ call.tool \in {"Write", "Edit"}
        /\ InsideRoot(cfg.docs_repo_path, Get(call.input, "file_path", ""))) =>
        call.result.behavior = "deny"

\* C17: whatever the container start does (success, non-zero exit, docker missing,
\* timeout, another launch failure), setup_verification_env raises nothing and returns
\* a handle: a docker handle exactly when the container started, and otherwise a
\* tmpdir handle on the directory just made.
C17_AcquireNeverRaises ==
    call.fn = "setup_verification_env" =>
        /\ call.result.raised = NoError
        /\ (call.result.value.type = "docker") <=> (call.input.outcome = "started")
        /\ call.input.outcome # "started" =>
              call.result.value = [type |-> "tmpdir", path |-> call.input.tmpdir]

\* C18: for a docker or tmpdir handle and whatever the stop / delete operation does
\* (success, failure, timeout, docker missing), teardown_verification_env raises
\* nothing and returns its message.
C18_ReleaseNeverRaises ==
    (call.fn = "teardown_verification_env"
        /\ DOMAIN call.input.args = {"env_type", "env_id"}
        /\ call.input.args["env_type"] \in {"docker", "tmpdir"}) =>
        /\ call.result.raised = NoError
        /\ call.result.value = CleanedUp

(***************************************************************************)
(* Branch names                                                            *)
(***************************************************************************)
EndsWith(s, suffix) ==
    Len(suffix) <= Len(s) /\ SubSeq(s, Len(s) - Len(suffix) + 1, Len(s)) = suffix

BranchPrefix == "agent/docs/"

\* the part of a branch name between the prefix and "-<timestamp>"
SlugOf(name, timestamp) ==
    SubSeq(name, Len(BranchPrefix) + 1, Len(name) - Len(IntToStr(timestamp)) - 1)

\* name is the prefix, some slug, a hyphen and the decimal timestamp
WellFormedName(name, timestamp) ==
    /\ StartsWith(name, BranchPrefix)
    /\ EndsWith(name, "-" \o IntToStr(timestamp))
    /\ Len(name) >= Len(BranchPrefix) + Len(IntToStr(timestamp)) + 1

IsAlnum(s, i) == SubSeq(s, i, i) \in SlugChars

\* the letters and digits of s, in order
RECURSIVE AlnumOnly(_, _)
AlnumOnly(s, i) ==
    IF i > Len(s) THEN ""
    ELSE (IF IsAlnum(s, i) THEN SubSeq(s, i, i) ELSE "") \o AlnumOnly(s, i + 1)

\* places where a run of other characters ends between two letters or digits
InnerRunEnds(s) ==
    {i \in 2..Len(s) : IsAlnum(s, i) /\ ~IsAlnum(s, i - 1) /\ \E j \in 1..(i - 1) : IsAlnum(s, j)}

HyphensOf(s) == {i \in 1..Len(s) : SubSeq(s, i, i) = "-"}

\* C19: with a user context the branch name is "agent/docs/", the slug, "-" and the
\* timestamp; the slug holds only a-z, 0-9 and hyphens, does not start or end with a
\* hyphen, has no two hyphens in a row, keeps exactly the letters and digits of the
\* lowercased first 60 characters in order, and has one hyphen for each run of other
\* characters between them; "We migrated from pip to uv!!" gives
\* we-migrated-from-pip-to-uv.
C19_ContextSlug ==
    (call.fn = "_build_branch_name" /\ call.input.user_context # "") =>
        LET ctx  == call.input.user_context
            src  == Lower(Take(ctx, SlugSourceLen))
            slug == SlugOf(call.result, call.input.timestamp)
        IN /\ WellFormedName(call.result, call.input.timestamp)
           /\ \A i \in 1..Len(slug) : SubSeq(slug, i, i) \in SlugChars \cup {"-"}
           /\ ~StartsWith(slug, "-")
           /\ ~EndsWith(slug, "-")
           /\ ~Contains(slug, "--")
           /\ AlnumOnly(slug, 1) = AlnumOnly(src, 1)
           /\ Cardinality(HyphensOf(slug)) = Cardinality(InnerRunEnds(src))
           /\ ctx = "We migrated from pip to uv!!" => slug = "we-migrated-from-pip-to-uv"

C19_Witness ==
    /\ call.fn = "_build_branch_name"
    /\ call.input.user_context =
          "--Renamed the CLI flag --out-dir to --output; all guides, ALL examples & FAQ..."
    /\ call.input.timestamp = 1700000001
    /\ call.result =
          "agent/docs/renamed-the-cli-flag-out-dir-to-output-all-guides-al-1700000001"

\* text after the last "/" of a path
BaseOf(f) ==
    CHOOSE b \in {SubSeq(f, i, Len(f)) : i \in 1..(Len(f) + 1)} :
        /\ ~Contains(b, "/")
        /\ Len(b) = Len(f) \/ SubSeq(f, Len(f) - Len(b), Len(f) - Len(b)) = "/"

\* a name without its extension: the text before its last "." (a leading "." is no
\* extension)
StemOf(b) ==
    LET dots == {i \in 2..Len(b) : SubSeq(b, i, i) = "."}
    IN IF dots = {} THEN b
       ELSE SubSeq(b, 1, (CHOOSE i \in dots : \A j \in dots : j <= i) - 1)

\* a name without a trailing ".md" and then without a trailing ".rst"
StemMdRst(b) ==
    LET b1 == IF EndsWith(b, ".md") THEN SubSeq(b, 1, Len(b) - 3) ELSE b
    IN IF EndsWith(b1, ".rst") THEN SubSeq(b1, 1, Len(b1) - 4) ELSE b1

\* C20 as stated: without a user context the slug is the basenames of the first three
\* target files at most, each without its directory part and without its extension,
\* joined by hyphens in list order, and "update" for an empty list.
C20_ExtensionStripped ==
    (call.fn = "_build_branch_name" /\ call.input.user_context = "") =>
        LET files == call.input.target_doc_files
            n     == IF Len(files) < 3 THEN Len(files) ELSE 3
        IN /\ WellFormedName(call.result, call.input.timestamp)
           /\ SlugOf(call.result, call.input.timestamp) =
                 IF n = 0 THEN "update"
                 ELSE Join([i \in 1..n |-> StemOf(BaseOf(files[i]))], "-")

\* C20 amended: without a user context the slug is made of the first three target
\* files at most, each reduced to the text after its last "/" with a trailing ".md"
\* and then a trailing ".rst" removed (no other extension is removed), joined by
\* hyphens in list order; it is "update" for an empty list; files after the third
\* have no influence.
C20_FilesSlug ==
    (call.fn = "_build_branch_name" /\ call.input.user_context = "") =>
        LET files == call.input.target_doc_files
            n     == IF Len(files) < 3 THEN Len(files) ELSE 3
        IN /\ WellFormedName(call.result, call.input.timestamp)
           /\ SlugOf(call.result, call.input.timestamp) =
                 IF n = 0 THEN "update"
                 ELSE Join([i \in 1..n |-> StemMdRst(BaseOf(files[i]))], "-")

C20_Witness ==
    /\ call.fn = "_build_branch_name"
    /\ call.input.user_context = ""
    /\ call.input.target_doc_files =
          <<"x.rst.md", "docs/api/index.md", "CHANGELOG.rst", "extra.md", "more.rst">>
    /\ call.result = "agent/docs/x-index-CHANGELOG-1700000000"

(***************************************************************************)
(* Phase runner                                                            *)
(***************************************************************************)
Finished(fn) == call.fn = fn /\ call.tool = ""

\* C22: for every response stream _collect_result returns the same text under all
\* four combinations of quiet and show_commands: the texts of the text blocks in
\* stream order, then the result text of the ResultMessage when it is not empty,
\* joined by newlines; tool-use blocks add nothing.
C22_ModeIndependent ==
    Finished("_collect_result") =>
        LET stream == call.input.stream
        IN /\ call.result.text = Join(CollectedTexts(stream), "\n")
           /\ call.result.texts = CollectedTexts(stream)
           /\ \A q \in BOOLEAN, sc \in BOOLEAN : CollectResult(stream, q, sc) = call.result.text

C22_Witness ==
    /\ Finished("_collect_result")
    /\ call.input.quiet
    /\ call.input.show_commands
    /\ call.input.stream = Stream(<<ToolUseBlock("Bash", "make test"), TextBlock("second"),
                                    TextBlock("first")>>, "All steps passed")
    /\ call.result.text = "second\nfirst\nAll steps passed"

\* C28: with show_commands and without quiet, every Bash block is shown as a command,
\* and a text block is shown as command output exactly when a Bash block comes before
\* it with no other text block in between; each such text is shown once, in stream
\* order, and no other text is shown as command output.
C28_EchoPairing ==
    (Finished("_collect_result") /\ call.input.show_commands /\ ~call.input.quiet) =>
        LET blocks    == call.input.stream.blocks
            IsText(j) == blocks[j].type = "text"
            IsBash(i) == blocks[i].type = "tool_use" /\ blocks[i].name = "Bash"
            Paired(j) == /\ IsText(j)
                         /\ \E i \in 1..(j - 1) :
                               IsBash(i) /\ \A k \in (i + 1)..(j - 1) : ~IsText(k)
            IsOutput(e)  == e.fn = "print_command_output"
            IsCommand(e) == e.fn = "print_command"
            outs == SelectSeq(call.result.printed, IsOutput)
            cmds == SelectSeq(call.result.printed, IsCommand)
        IN /\ \A j \in DOMAIN blocks :
                 Paired(j) <=> \E a \in DOMAIN outs : outs[a].at = j
           /\ \A a \in DOMAIN outs : outs[a].text = blocks[outs[a].at].text
           /\ \A a, b \in DOMAIN outs : a < b => outs[a].at < outs[b].at
           /\ \A i \in DOMAIN blocks :
                 IsBash(i) <=> \E a \in DOMAIN cmds : cmds[a].at = i

C28_Witness ==
    /\ Finished("_collect_result")
    /\ call.input.show_commands
    /\ ~call.input.quiet
    /\ call.input.stream.blocks = <<ToolUseBlock("Bash", "make test"), TextBlock("first"),
                                    TextBlock("second")>>
    /\ call.result.printed = <<Printed("print_command", 1, "make test"),
                               Printed("print_command_output", 2, "first")>>

\* C21: any two runs derive different branch names, also when their context and
\* target files are the same and they start close together.
C21_UniqueNames ==
    Finished("_build_branch_name in two runs") => call.result[1] # call.result[2]

\* C23: get_git_diff returns what "git diff" printed, unchanged, whenever that is not
\* empty, and exactly "(no changes)" whenever it is empty.
C23_DiffOrNoChanges ==
    (call.fn = "get_git_diff" /\ call.result.raised = NoError) =>
        LET stdout == call.input.run.stdout
        IN /\ stdout # "" => call.result.value = stdout
           /\ stdout = "" => call.result.value = "(no changes)"

C23_Witness ==
    /\ call.fn = "get_git_diff"
    /\ call.input.args = [repo_path |-> "/docs"]
    /\ call.input.run = [returncode |-> 0, stdout |-> ""]
    /\ call.result = Returned("(no changes)")

\* C24: the UPDATE instruction holds the feedback block ("PREVIOUS VERIFICATION
\* FAILED ...") in every cycle after the first and in no first cycle, whatever the
\* VERIFY before it returned.
C24_FeedbackBlock ==
    prompt.phase = "update" =>
        (Contains(prompt.text, "PREVIOUS VERIFICATION FAILED") <=> prompt.cycle > 1)

\* C25: the returned PipelineResult holds the verification output of every cycle that
\* ran, not only of the last one: the text of the last failed VERIFY (kept in
\* verification_failure_context) is part of result.verification.
C25_AllCyclesKept ==
    pc = "done" => Contains(result.verification, verification_failure_context.text)

NothingIssuedAfterEnd ==
    [][(pc \in {"done", "exit"}) =>
          /\ issued' = issued
          /\ prompt' = prompt]_vars

\* C26: when every phase ends with its terminal result or an engine error, every run
\* reaches a returned PipelineResult or a fatal exit, for every max_iterations and
\* every sequence of verdicts, and from then on no instruction is issued.
C26_Terminates == <>(pc \in {"done", "exit"}) /\ NothingIssuedAfterEnd

C26_Witness ==
    /\ pc = "done"
    /\ cfg.max_iterations = 3
    /\ outcomes = <<FALSE, FALSE, FALSE>>
    /\ cfg.create_pr
    /\ Count("pr") = 1

\* C27: the phases of a run are strictly sequential: an instruction is sent only when
\* every instruction before it has been drained to its ResultMessage, so at most one
\* phase is in flight, and the UPDATE and VERIFY instructions follow each other cycle
\* by cycle, the UPDATE of a cycle before its VERIFY.
C27_Sequential ==
    /\ Len(issued) - completed \in {0, 1}
    /\ pc \in QueryPcs \cup {"loop_test", "return", "done"} => completed = Len(issued)
    /\ pc \in CollectPcs => completed = Len(issued) - 1
    /\ \A i, j \in DOMAIN issued :
          (i < j /\ issued[i].phase \in {"update", "verify"}
                 /\ issued[j].phase \in {"update", "verify"}) =>
              \/ issued[i].cycle < issued[j].cycle
              \/ (issued[i].cycle = issued[j].cycle /\ j = i + 1
                    /\ issued[i].phase = "update" /\ issued[j].phase = "verify")

C27_Witness ==
    /\ pc = "collect_verify"
    /\ prompt.cycle = 2
    /\ Len(issued) = 6
    /\ completed = 5

\* C29: for every tool other than Write and Edit and every input the guard allows,
\* and every allow, for any tool, hands the tool input back unchanged.
C29_OthersPassThrough ==
    call.fn = "can_use_tool" =>
        /\ call.tool \notin {"Write", "Edit"} => call.result.behavior = "allow"
        /\ call.result.behavior = "allow" => call.result.updated_input = call.input

C29_Witness ==
    /\ call.fn = "can_use_tool"
    /\ call.tool = "Bash"
    /\ call.input = [file_path |-> "/etc/passwd"]
    /\ call.result = Allow([file_path |-> "/etc/passwd"])

\* C30: for every Write or Edit input the guard answers allow or deny; a deny carries
\* a reason that is not empty and names the attempted path; and an input without
\* file_path is denied.
C30_DenialsAreValues ==
    (call.fn = "can_use_tool" /\ call.tool \in {"Write", "Edit"}) =>
        /\ call.result.behavior \in {"allow", "deny"}
        /\ call.result.behavior = "deny" =>
              /\ call.result.message # ""
              /\ Contains(call.result.message, cfg.docs_repo_path)
                    \/ Contains(call.result.message, "sensitive")
              /\ EndsWith(call.result.message, Get(call.input, "file_path", ""))
        /\ "file_path" \notin DOMAIN call.input => call.result.behavior = "deny"

C30_Witness ==
    /\ call.fn = "can_use_tool"
    /\ call.tool = "Edit"
    /\ call.input = EmptyDict
    /\ call.result.behavior = "deny"
    /\ call.result.message = "Write/Edit only allowed in docs repo (/docs). Attempted: "

\* C31: every tool of the custom server that is allowed and that the instruction in
\* flight names is registered in the server create_custom_tools_server builds, so the
\* step has a tool to execute; in particular the commit step.
C31_NamedToolsRegistered ==
    pc \in CollectPcs =>
        \A t \in AllowedCustomTools :
            Contains(prompt.text, t) => t \in CreateCustomToolsServer.tools

\* C32: create_git_branch starts its commands in the order checkout -b, add -A,
\* commit; when checkout or add fails the tool raises and no later command is started;
\* when only the commit fails the tool does not raise and answers that the branch was
\* created and committed.
C32_BranchToolSteps ==
    (call.fn = "create_git_branch" /\ "branch_name" \in DOMAIN call.input.args) =>
        LET run    == call.input.run
            res    == call.result
            kinds  == [i \in DOMAIN res.ran |-> res.ran[i][2]]
        IN /\ kinds \in {<<"checkout">>, <<"checkout", "add">>, <<"checkout", "add", "commit">>}
           /\ res.ran[1] = GitCheckout(call.input.args["branch_name"])
           /\ run.checkout # "ok" => (res.raised # NoError /\ kinds = <<"checkout">>)
           /\ (run.checkout = "ok" /\ run.add # "ok") =>
                 (res.raised # NoError /\ kinds = <<"checkout", "add">>)
           /\ (run.checkout = "ok" /\ run.add = "ok") =>
                 /\ res.raised = NoError
                 /\ kinds = <<"checkout", "add", "commit">>
                 /\ StartsWith(res.value, "Branch '" \o call.input.args["branch_name"]
                                           \o "' created and committed.")

C32_Witness ==
    /\ call.fn = "create_git_branch"
    /\ call.input.args = [repo_path |-> "/docs", branch_name |-> "docs/auto-update-1700000000"]
    /\ call.input.run.checkout = "ok"
    /\ call.input.run.add = "ok"
    /\ call.input.run.commit.returncode = 1
    /\ call.result.raised = NoError
    /\ call.result.value = "Branch 'docs/auto-update-1700000000' created and committed.\n"
                            \o "nothing to commit, working tree clean\n"
    /\ Len(call.result.ran) = 3
====
